---- MODULE Spec2Model ----
(***************************************************************************)
(* Host-scoped JSON document store (src/server.js): every request is       *)
(* resolved to a tenant directory under BASE_DIR, which holds the          *)
(* metadata index fileIndex.json and one blob file <id>.json per document. *)
(* Node runs each synchronous handler to completion, so one handler is one *)
(* action.  Strings that the code inspects character by character (host    *)
(* headers, display names) are sequences of one-character strings.  The    *)
(* directory also holds the tenant's config.json, served by /config.       *)
(***************************************************************************)
EXTENDS Integers, Sequences, FiniteSets, TLC

\* ------------------------------------------------------------------ bounds
MaxDocs == 2     \* number of uuidv4() identifiers drawn in one behaviour
MaxClock == 1    \* the last millisecond the clock of a behaviour reaches

\* ------------------------------------------------------------- JSON values
\* A JSON (or JavaScript) value of a request body field: its type and a
\* number that tells two values of the type apart (0 is the falsy one of
\* string, number and boolean).
Json(t, n) == [type |-> t, v |-> n]
Undefined == Json("undefined", 0)

\* typeof x
TypeOf(d) == IF d.type \in {"object", "array", "null"} THEN "object" ELSE d.type

\* !!x
Truthy(d) ==
    CASE d.type \in {"object", "array"} -> TRUE
      [] d.type \in {"null", "undefined"} -> FALSE
      [] OTHER -> d.v # 0

IsJsonObject(d) == d.type = "object"

\* JSON.stringify(data, null, 2) of a body value, and JSON.parse of the text
\* of a blob file.
JSONstringify(d) == [kind |-> "json", value |-> d]
JSONparse(text) == text.value

\* ----------------------------------------------------------------- strings
NoString == [given |-> FALSE, s |-> <<>>]
Str(s) == [given |-> TRUE, s |-> s]

RECURSIVE TrimLeft(_)
TrimLeft(s) == IF s # <<>> /\ Head(s) = " " THEN TrimLeft(Tail(s)) ELSE s

RECURSIVE TrimRight(_)
TrimRight(s) ==
    IF s # <<>> /\ s[Len(s)] = " " THEN TrimRight(SubSeq(s, 1, Len(s) - 1)) ELSE s

\* String.prototype.trim
Trim(s) == TrimRight(TrimLeft(s))

\* ------------------------------------------------------ namespace resolver
Letters == {"a", "b", "c", "d", "e", "f", "g", "h", "i", "j", "k", "l", "m",
            "n", "o", "p", "q", "r", "s", "t", "u", "v", "w", "x", "y", "z"}
Digits == {"0", "1", "2", "3", "4", "5", "6", "7", "8", "9"}

\* The characters the class [a-zA-Z0-9.-] keeps (lower case only here).
SafeChars == Letters \cup Digits \cup {".", "-"}

sanitizeHost(host) ==
    [i \in 1..Len(host) |->
        IF host[i] = ":" THEN "-"
        ELSE IF host[i] \in SafeChars THEN host[i]
        ELSE "_"]

DefaultPort(scheme) == IF scheme = "https" THEN <<"4", "4", "3">> ELSE <<"8", "0">>

\* URL.port: the empty string when no port is written or the written port
\* is the default port of the scheme.
URLport(o) == IF o.port = DefaultPort(o.scheme) THEN <<>> ELSE o.port

NoOrigin == [given |-> FALSE, parses |-> FALSE, scheme |-> "http",
             hostname |-> <<>>, port |-> <<>>]
Origin(scheme, hostname, port) ==
    [given |-> TRUE, parses |-> TRUE, scheme |-> scheme,
     hostname |-> hostname, port |-> port]
BadOrigin == [given |-> TRUE, parses |-> FALSE, scheme |-> "http",
              hostname |-> <<>>, port |-> <<>>]

\* Defect: the origin header is looked at before the override header.
getEffectiveHostOriginFirst(h) ==
    IF h.origin.given /\ h.origin.parses
    THEN sanitizeHost(h.origin.hostname \o <<":">> \o
                      (IF URLport(h.origin) # <<>> THEN URLport(h.origin)
                       ELSE <<"8", "0">>))
    ELSE IF h.xhost # <<>> THEN sanitizeHost(h.xhost)
    ELSE sanitizeHost(h.host)

\* A header that is absent and a header that is the empty string are both
\* falsy: <<>> stands for either.
getEffectiveHost(h) ==
    IF h.xhost # <<>> THEN sanitizeHost(h.xhost)
    ELSE IF h.origin.given /\ h.origin.parses
         THEN sanitizeHost(h.origin.hostname \o <<":">> \o
                           (IF URLport(h.origin) # <<>> THEN URLport(h.origin)
                            ELSE <<"8", "0">>))
    ELSE sanitizeHost(h.host)

\* The request headers the model draws from: an override header, an origin
\* that resolves to the same tenant, and a malformed origin that falls
\* through to the transport host.
Headers ==
    { [xhost |-> <<"a", ":", "1">>, origin |-> NoOrigin, host |-> <<"s">>],
      [xhost |-> <<>>, origin |-> Origin("http", <<"a">>, <<"1">>), host |-> <<"s">>],
      [xhost |-> <<>>, origin |-> BadOrigin, host |-> <<"b">>] }

\* -------------------------------------------------------------- file paths
\* A path is the sequence of its segments below __dirname.
AppDir == <<>>
BASE_DIR == Append(AppDir, <<"ahc_charts_db">>)

\* path.join(dir, segment) for a segment without separators
pathJoin(dir, seg) ==
    IF seg = <<>> \/ seg = <<".">> THEN dir
    ELSE IF seg = <<".", ".">> THEN SubSeq(dir, 1, Len(dir) - 1)
    ELSE Append(dir, seg)

\* Defect: every host is given the base directory.
domainDirShared(host) == BASE_DIR

\* path.join(BASE_DIR, host)
domainDirOf(host) == pathJoin(BASE_DIR, host)

\* const host = getEffectiveHost(req), for each request the model draws
Hosts == {getEffectiveHost(h) : h \in Headers}

AllDirs == {domainDirOf(host) : host \in Hosts}

\* Override headers whose value is a relative path segment, next to one
\* that names a tenant.
PathHeaders ==
    { [xhost |-> <<".", ".">>, origin |-> NoOrigin, host |-> <<"s">>],
      [xhost |-> <<".">>, origin |-> NoOrigin, host |-> <<"s">>],
      [xhost |-> <<"b">>, origin |-> NoOrigin, host |-> <<"s">>] }
PathHosts == {getEffectiveHost(h) : h \in PathHeaders}

\* Every directory a request of the model can name.
StoreDirs == AllDirs \cup {domainDirOf(host) : host \in PathHosts}

\* Defect: the file name is a fixed one, not built from the id.
fileNameFixed(id) == [stem |-> 0, ext |-> ".json"]

\* `${id}.json`
fileNameOf(id) == [stem |-> id, ext |-> ".json"]

\* --------------------------------------------------------- metadata index
\* The text of fileIndex.json: absent, empty (or blank), bytes that are not
\* JSON, or the JSON text of a value (an array of records, or another value).
AbsentFile == [kind |-> "absent", type |-> "none", recs |-> <<>>]
EmptyFile == [kind |-> "empty", type |-> "none", recs |-> <<>>]
GarbageFile == [kind |-> "garbage", type |-> "none", recs |-> <<>>]
JsonFile(t) == [kind |-> "json", type |-> t, recs |-> <<>>]

ArrayOf(recs) == [type |-> "array", recs |-> recs]
stringifyMeta(meta) == [kind |-> "json", type |-> meta.type, recs |-> meta.recs]
parseMeta(text) == [type |-> text.type, recs |-> text.recs]

NoRec == [id |-> 0, filename |-> fileNameOf(0), displayName |-> <<>>,
          createdAt |-> 0, updatedAt |-> 0]

\* ------------------------------------------------------------ config files
\* The text of config.json (and of config.json.tmp): absent, the complete
\* JSON text of a value, or the beginning of a text whose write was cut.
AbsentConfig == [kind |-> "absent", value |-> Undefined]
PartialConfig == [kind |-> "partial", value |-> Undefined]

\* The document GET /config creates: the fixed colours and logo, and "id".
newConfigOf(id) == [type |-> "object", v |-> 1, id |-> id]

VARIABLES
    dirs,      \* the directories that exist
    index,     \* index[d]: text of d/fileIndex.json
    blobs,     \* blobs[d]: the blob files of d, file name -> text
    now,       \* the wall clock (milliseconds)
    nextId,    \* the next identifier uuidv4() returns
    savedIn,   \* history: savedIn[id] = host whose save generated id
    last,      \* the last request, what its handler saw, and its response
    config,    \* config[d]: text of d/config.json
    configTmp  \* configTmp[d]: text of d/config.json.tmp

vars == <<dirs, index, blobs, now, nextId, savedIn, last, config, configTmp>>

Ids == 1..MaxDocs
NoHost == <<>>
NoFiles == [f \in {} |-> JSONstringify(Undefined)]

\* ------------------------------------------------------- file system steps
\* Defect: writing a blob file removes the other files of the directory.
writeBlobAlone(files, name, text) == [f \in {name} |-> text]

\* fs.writeFileSync / fs.unlinkSync on a blob file of a directory
writeBlob(files, name, text) ==
    [f \in DOMAIN files \cup {name} |-> IF f = name THEN text ELSE files[f]]
unlinkBlob(files, name) == [f \in DOMAIN files \ {name} |-> files[f]]

ensureDirSync(ds, dir) == IF dir \notin ds THEN ds \cup {dir} ELSE ds

\* Defect: the index file is initialized on every call.
getDomainPathsReset(host) ==
    LET domainDir == domainDirOf(host) IN
    [domainDir |-> domainDir,
     dirs |-> ensureDirSync(dirs, domainDir),
     index |-> [index EXCEPT ![domainDir] = stringifyMeta(ArrayOf(<<>>))]]

\* The directory, and the directories and index files after the call.
getDomainPaths(host) ==
    LET domainDir == domainDirOf(host) IN
    [domainDir |-> domainDir,
     dirs |-> ensureDirSync(dirs, domainDir),
     index |-> IF index[domainDir].kind \in {"absent", "empty"}
               THEN [index EXCEPT ![domainDir] = stringifyMeta(ArrayOf(<<>>))]
               ELSE index]

\* Defect: the handler works on a collection loaded before the requests
\* ahead of it persisted theirs.
readMetaStale(idx, dir) == [meta |-> ArrayOf(<<>>), index |-> idx]

\* Defect: the catch block returns the empty list without rewriting the file.
readMetaNoRewrite(idx, dir) ==
    IF idx[dir].kind = "json" THEN [meta |-> parseMeta(idx[dir]), index |-> idx]
    ELSE [meta |-> ArrayOf(<<>>), index |-> idx]

\* The parsed metadata, and the index files after the call.
readMeta(idx, dir) ==
    IF idx[dir].kind = "empty" THEN [meta |-> ArrayOf(<<>>), index |-> idx]
    ELSE IF idx[dir].kind = "json" THEN [meta |-> parseMeta(idx[dir]), index |-> idx]
    ELSE [meta |-> ArrayOf(<<>>),
          index |-> [idx EXCEPT ![dir] = stringifyMeta(ArrayOf(<<>>))]]

writeMeta(idx, dir, meta) == [idx EXCEPT ![dir] = stringifyMeta(meta)]

\* ------------------------------------------------------------ array steps
IsArray(meta) == meta.type = "array"

\* Defect: the check for a used name is left out.
someNamedNever(recs, displayName) == FALSE

\* meta.some(file => file.displayName === displayName)
someNamed(recs, displayName) == \E i \in 1..Len(recs) : recs[i].displayName = displayName

\* meta.some(m => m.displayName === newDisplayName && m.id !== id)
someOtherNamed(recs, displayName, id) ==
    \E i \in 1..Len(recs) : recs[i].displayName = displayName /\ recs[i].id # id

\* index of the record meta.find(m => m.id === id) returns, 0 when undefined
findIndex(recs, id) ==
    IF \E i \in 1..Len(recs) : recs[i].id = id
    THEN CHOOSE i \in 1..Len(recs) :
            recs[i].id = id /\ \A j \in 1..(i - 1) : recs[j].id # id
    ELSE 0

\* Defect: the record of a deleted document is kept.
filterOutNothing(recs, id) == recs

\* meta.filter(m => m.id !== id)
RECURSIVE filterOut(_, _)
filterOut(recs, id) ==
    IF recs = <<>> THEN <<>>
    ELSE IF Head(recs).id # id THEN <<Head(recs)>> \o filterOut(Tail(recs), id)
    ELSE filterOut(Tail(recs), id)

\* Insert r into a list sorted by createdAt descending, after its equals.
RECURSIVE insertDesc(_, _)
insertDesc(sorted, r) ==
    IF sorted = <<>> THEN <<r>>
    ELSE IF Head(sorted).createdAt >= r.createdAt
         THEN <<Head(sorted)>> \o insertDesc(Tail(sorted), r)
    ELSE <<r>> \o sorted

\* Defect: the list is answered in the order of the index file.
sortNothing(recs) == recs

\* recs.sort((a, b) => new Date(b.createdAt) - new Date(a.createdAt)), stable
RECURSIVE sortByCreatedDesc(_)
sortByCreatedDesc(recs) ==
    IF recs = <<>> THEN <<>>
    ELSE insertDesc(sortByCreatedDesc(SubSeq(recs, 1, Len(recs) - 1)), recs[Len(recs)])

\* ----------------------------------------------------------- the responses
NoData == [isNull |-> TRUE, rec |-> NoRec, list |-> <<>>, body |-> Undefined, id |-> 0]
RecData(r) == [NoData EXCEPT !.isNull = FALSE, !.rec = r]
ListData(l) == [NoData EXCEPT !.isNull = FALSE, !.list = l]
FileData(r, b) == [NoData EXCEPT !.isNull = FALSE, !.rec = r, !.body = b]
IdData(i) == [NoData EXCEPT !.isNull = FALSE, !.id = i]

Request(op, host, id, name, data) ==
    [op |-> op, host |-> host, id |-> id, name |-> name, data |-> data]

\* What the handler saw: the index file it found, whether find returned a
\* record, whether the record's blob file existed.
Seen(text, found, onDisk) ==
    [index |-> IF text.kind = "json" THEN text.type ELSE text.kind,
     found |-> found, onDisk |-> onDisk]

\* res.status(statusCode).json({ status, data, message, statusCode }): the
\* fields of the body, and http, the status code of the response.
sendResponse(success, data, message, statusCode) ==
    [status |-> success, data |-> data, message |-> message, statusCode |-> statusCode,
     http |-> statusCode]

NoRequest == [req |-> Request("none", <<>>, 0, NoString, Undefined),
              seen |-> Seen(AbsentFile, FALSE, FALSE),
              res |-> sendResponse(TRUE, NoData, "", 0)]

\* The error kinds of the responses: each stands for the message text the
\* handlers send with it.  Save and update word DuplicateName differently
\* ("..., choose another", "..., choose a different name"); success
\* messages are "OK" and every caught exception is IOFailure.
InvalidPayload == "Invalid JSON format"
MissingRequiredField == "Report name is required"
DuplicateName == "Report name already used"
NotFound == "File not found"
NotFoundOnDisk == "File not found on disk"
IOFailure == "Error"

Init ==
    /\ dirs = {AppDir, BASE_DIR}
    /\ index = [d \in StoreDirs |-> AbsentFile]
    /\ blobs = [d \in StoreDirs |-> NoFiles]
    /\ now = 0
    /\ nextId = 1
    /\ savedIn = [i \in Ids |-> NoHost]
    /\ last = NoRequest
    /\ config = [d \in StoreDirs |-> AbsentConfig]
    /\ configTmp = [d \in StoreDirs |-> AbsentConfig]

\* ------------------------------------------------------------ the handlers
\* The state a handler leaves and the response it sends.
Finish(ds, idx, bl, t, n, sv, req, seen, res) ==
    /\ dirs' = ds
    /\ index' = idx
    /\ blobs' = bl
    /\ now' = t
    /\ nextId' = n
    /\ savedIn' = sv
    /\ last' = [req |-> req, seen |-> seen, res |-> res]
    /\ UNCHANGED <<config, configTmp>>

\* if (!data || typeof data !== "object")
invalidData(data) == ~Truthy(data) \/ TypeOf(data) # "object"

\* if (!displayName || displayName.trim() === "")
missingName(displayName) ==
    ~displayName.given \/ displayName.s = <<>> \/ Trim(displayName.s) = <<>>

\* Defect: the blob file is written before the displayName is looked up.
SaveJsonWritesFirst(host, displayName, data, c1, c2) ==
    LET p == getDomainPaths(host)
        rm == readMeta(p.index, p.domainDir)
        req == Request("save", host, 0, displayName, data)
        seen == Seen(index[p.domainDir], FALSE, FALSE)
        id == nextId
        fileName == fileNameOf(id)
        newFileInfo == [id |-> id, filename |-> fileName,
                        displayName |-> displayName.s,
                        createdAt |-> c1, updatedAt |-> c2]
    IN
    IF invalidData(data)
    THEN Finish(p.dirs, p.index, blobs, now, nextId, savedIn, req, seen,
                sendResponse(FALSE, NoData, InvalidPayload, 400))
    ELSE IF missingName(displayName)
    THEN Finish(p.dirs, p.index, blobs, now, nextId, savedIn, req, seen,
                sendResponse(FALSE, NoData, MissingRequiredField, 400))
    ELSE IF ~IsArray(rm.meta)
    THEN Finish(p.dirs, rm.index, blobs, now, nextId, savedIn, req, seen,
                sendResponse(FALSE, NoData, IOFailure, 500))
    ELSE IF someNamed(rm.meta.recs, displayName.s)
    THEN Finish(p.dirs, rm.index,
                [blobs EXCEPT ![p.domainDir] =
                        writeBlob(@, fileName, JSONstringify(data))],
                now, nextId, savedIn, req, seen,
                sendResponse(FALSE, NoData, DuplicateName, 400))
    ELSE
        /\ nextId <= MaxDocs
        /\ Finish(p.dirs,
                  writeMeta(rm.index, p.domainDir,
                            ArrayOf(Append(rm.meta.recs, newFileInfo))),
                  [blobs EXCEPT ![p.domainDir] =
                        writeBlob(@, fileName, JSONstringify(data))],
                  c2, nextId + 1, [savedIn EXCEPT ![id] = host],
                  req, seen, sendResponse(TRUE, RecData(newFileInfo), "OK", 200))

\* app.post("/save-json"); c1 and c2 are the two readings of new Date()
SaveJson(host, displayName, data, c1, c2) ==
    LET p == getDomainPaths(host)
        rm == readMeta(p.index, p.domainDir)
        req == Request("save", host, 0, displayName, data)
        seen == Seen(index[p.domainDir], FALSE, FALSE)
        id == nextId
        fileName == fileNameOf(id)
        newFileInfo == [id |-> id, filename |-> fileName,
                        displayName |-> displayName.s,
                        createdAt |-> c1, updatedAt |-> c2]
    IN
    IF invalidData(data)
    THEN Finish(p.dirs, p.index, blobs, now, nextId, savedIn, req, seen,
                sendResponse(FALSE, NoData, InvalidPayload, 400))
    ELSE IF missingName(displayName)
    THEN Finish(p.dirs, p.index, blobs, now, nextId, savedIn, req, seen,
                sendResponse(FALSE, NoData, MissingRequiredField, 400))
    ELSE IF ~IsArray(rm.meta)
    THEN Finish(p.dirs, rm.index, blobs, now, nextId, savedIn, req, seen,
                sendResponse(FALSE, NoData, IOFailure, 500))
    ELSE IF someNamed(rm.meta.recs, displayName.s)
    THEN Finish(p.dirs, rm.index, blobs, now, nextId, savedIn, req, seen,
                sendResponse(FALSE, NoData, DuplicateName, 400))
    ELSE
        /\ nextId <= MaxDocs
        /\ Finish(p.dirs,
                  writeMeta(rm.index, p.domainDir,
                            ArrayOf(Append(rm.meta.recs, newFileInfo))),
                  [blobs EXCEPT ![p.domainDir] =
                        writeBlob(@, fileName, JSONstringify(data))],
                  c2, nextId + 1, [savedIn EXCEPT ![id] = host],
                  req, seen, sendResponse(TRUE, RecData(newFileInfo), "OK", 200))

\* app.get("/files")
ListFiles(host) ==
    LET p == getDomainPaths(host)
        rm == readMeta(p.index, p.domainDir)
        req == Request("list", host, 0, NoString, Undefined)
        seen == Seen(index[p.domainDir], FALSE, FALSE)
    IN
    IF ~IsArray(rm.meta)
    THEN Finish(p.dirs, rm.index, blobs, now, nextId, savedIn, req, seen,
                sendResponse(FALSE, NoData, IOFailure, 500))
    ELSE Finish(p.dirs, rm.index, blobs, now, nextId, savedIn, req, seen,
                sendResponse(TRUE, ListData(sortByCreatedDesc(rm.meta.recs)), "OK", 200))

\* Defect: a record whose blob file is missing is dropped from the index.
getFileRepair(host, id) ==
    LET p == getDomainPaths(host)
        rm == readMeta(p.index, p.domainDir)
        k == IF IsArray(rm.meta) THEN findIndex(rm.meta.recs, id) ELSE 0
        fileMeta == IF k = 0 THEN NoRec ELSE rm.meta.recs[k]
        files == blobs[p.domainDir]
        onDisk == k # 0 /\ fileMeta.filename \in DOMAIN files
    IN
    [dirs |-> p.dirs,
     index |-> IF IsArray(rm.meta) /\ k # 0 /\ ~onDisk
               THEN writeMeta(rm.index, p.domainDir, ArrayOf(filterOut(rm.meta.recs, id)))
               ELSE rm.index,
     seen |-> Seen(index[p.domainDir], k # 0, onDisk),
     res |-> IF ~IsArray(rm.meta) THEN sendResponse(FALSE, NoData, IOFailure, 500)
             ELSE IF k = 0 THEN sendResponse(FALSE, NoData, NotFound, 404)
             ELSE IF ~onDisk THEN sendResponse(FALSE, NoData, NotFoundOnDisk, 404)
             ELSE sendResponse(TRUE,
                               FileData(fileMeta, JSONparse(files[fileMeta.filename])),
                               "OK", 200)]

\* The body of app.get("/file/:id"): the directories and index files it
\* leaves, what it saw and the response it sends.
getFile(host, id) ==
    LET p == getDomainPaths(host)
        rm == readMeta(p.index, p.domainDir)
        k == IF IsArray(rm.meta) THEN findIndex(rm.meta.recs, id) ELSE 0
        fileMeta == IF k = 0 THEN NoRec ELSE rm.meta.recs[k]
        files == blobs[p.domainDir]
        onDisk == k # 0 /\ fileMeta.filename \in DOMAIN files
    IN
    [dirs |-> p.dirs, index |-> rm.index,
     seen |-> Seen(index[p.domainDir], k # 0, onDisk),
     res |-> IF ~IsArray(rm.meta) THEN sendResponse(FALSE, NoData, IOFailure, 500)
             ELSE IF k = 0 THEN sendResponse(FALSE, NoData, NotFound, 404)
             ELSE IF ~onDisk THEN sendResponse(FALSE, NoData, NotFoundOnDisk, 404)
             ELSE sendResponse(TRUE,
                               FileData(fileMeta, JSONparse(files[fileMeta.filename])),
                               "OK", 200)]

\* app.get("/file/:id")
GetFile(host, id) ==
    LET g == getFile(host, id) IN
    Finish(g.dirs, g.index, blobs, now, nextId, savedIn,
           Request("get", host, id, NoString, Undefined), g.seen, g.res)

\* Defect: updatedAt is refreshed only when the blob file is rewritten.
UpdateFileKeepsTime(host, id, newDisplayName, data, c) ==
    LET p == getDomainPaths(host)
        rm == readMeta(p.index, p.domainDir)
        req == Request("update", host, id, newDisplayName, data)
        k == IF IsArray(rm.meta) THEN findIndex(rm.meta.recs, id) ELSE 0
        fileMeta == IF k = 0 THEN NoRec ELSE rm.meta.recs[k]
        files == blobs[p.domainDir]
        onDisk == k # 0 /\ fileMeta.filename \in DOMAIN files
        seen == Seen(index[p.domainDir], k # 0, onDisk)
        rename == newDisplayName.given /\ newDisplayName.s # <<>>
                  /\ newDisplayName.s # fileMeta.displayName
        updated == [fileMeta EXCEPT
                        !.displayName = IF rename THEN newDisplayName.s ELSE @,
                        !.updatedAt = IF Truthy(data) /\ TypeOf(data) = "object"
                                      THEN c ELSE @]
    IN
    IF ~IsArray(rm.meta)
    THEN Finish(p.dirs, rm.index, blobs, now, nextId, savedIn, req, seen,
                sendResponse(FALSE, NoData, IOFailure, 500))
    ELSE IF k = 0
    THEN Finish(p.dirs, rm.index, blobs, now, nextId, savedIn, req, seen,
                sendResponse(FALSE, NoData, NotFound, 404))
    ELSE IF ~onDisk
    THEN Finish(p.dirs, rm.index, blobs, now, nextId, savedIn, req, seen,
                sendResponse(FALSE, NoData, NotFoundOnDisk, 404))
    ELSE IF rename /\ someOtherNamed(rm.meta.recs, newDisplayName.s, id)
    THEN Finish(p.dirs, rm.index, blobs, now, nextId, savedIn, req, seen,
                sendResponse(FALSE, NoData, DuplicateName, 400))
    ELSE Finish(p.dirs,
                writeMeta(rm.index, p.domainDir,
                          ArrayOf([rm.meta.recs EXCEPT ![k] = updated])),
                IF Truthy(data) /\ TypeOf(data) = "object"
                THEN [blobs EXCEPT ![p.domainDir] =
                        writeBlob(@, fileMeta.filename, JSONstringify(data))]
                ELSE blobs,
                c, nextId, savedIn, req, seen,
                sendResponse(TRUE, RecData(updated), "OK", 200))

\* app.put("/file/:id"); c is the reading of new Date()
UpdateFile(host, id, newDisplayName, data, c) ==
    LET p == getDomainPaths(host)
        rm == readMeta(p.index, p.domainDir)
        req == Request("update", host, id, newDisplayName, data)
        k == IF IsArray(rm.meta) THEN findIndex(rm.meta.recs, id) ELSE 0
        fileMeta == IF k = 0 THEN NoRec ELSE rm.meta.recs[k]
        files == blobs[p.domainDir]
        onDisk == k # 0 /\ fileMeta.filename \in DOMAIN files
        seen == Seen(index[p.domainDir], k # 0, onDisk)
        rename == newDisplayName.given /\ newDisplayName.s # <<>>
                  /\ newDisplayName.s # fileMeta.displayName
        updated == [fileMeta EXCEPT
                        !.displayName = IF rename THEN newDisplayName.s ELSE @,
                        !.updatedAt = c]
    IN
    IF ~IsArray(rm.meta)
    THEN Finish(p.dirs, rm.index, blobs, now, nextId, savedIn, req, seen,
                sendResponse(FALSE, NoData, IOFailure, 500))
    ELSE IF k = 0
    THEN Finish(p.dirs, rm.index, blobs, now, nextId, savedIn, req, seen,
                sendResponse(FALSE, NoData, NotFound, 404))
    ELSE IF ~onDisk
    THEN Finish(p.dirs, rm.index, blobs, now, nextId, savedIn, req, seen,
                sendResponse(FALSE, NoData, NotFoundOnDisk, 404))
    ELSE IF rename /\ someOtherNamed(rm.meta.recs, newDisplayName.s, id)
    THEN Finish(p.dirs, rm.index, blobs, now, nextId, savedIn, req, seen,
                sendResponse(FALSE, NoData, DuplicateName, 400))
    ELSE Finish(p.dirs,
                writeMeta(rm.index, p.domainDir,
                          ArrayOf([rm.meta.recs EXCEPT ![k] = updated])),
                IF Truthy(data) /\ TypeOf(data) = "object"
                THEN [blobs EXCEPT ![p.domainDir] =
                        writeBlob(@, fileMeta.filename, JSONstringify(data))]
                ELSE blobs,
                c, nextId, savedIn, req, seen,
                sendResponse(TRUE, RecData(updated), "OK", 200))

\* Defect: delete checks the blob file as get and update do.
DeleteFileStrict(host, id) ==
    LET p == getDomainPaths(host)
        rm == readMeta(p.index, p.domainDir)
        req == Request("delete", host, id, NoString, Undefined)
        k == IF IsArray(rm.meta) THEN findIndex(rm.meta.recs, id) ELSE 0
        fileMeta == IF k = 0 THEN NoRec ELSE rm.meta.recs[k]
        files == blobs[p.domainDir]
        onDisk == k # 0 /\ fileMeta.filename \in DOMAIN files
        seen == Seen(index[p.domainDir], k # 0, onDisk)
    IN
    IF ~IsArray(rm.meta)
    THEN Finish(p.dirs, rm.index, blobs, now, nextId, savedIn, req, seen,
                sendResponse(FALSE, NoData, IOFailure, 500))
    ELSE IF k = 0
    THEN Finish(p.dirs, rm.index, blobs, now, nextId, savedIn, req, seen,
                sendResponse(FALSE, NoData, NotFound, 404))
    ELSE IF ~onDisk
    THEN Finish(p.dirs, rm.index, blobs, now, nextId, savedIn, req, seen,
                sendResponse(FALSE, NoData, NotFoundOnDisk, 404))
    ELSE Finish(p.dirs,
                writeMeta(rm.index, p.domainDir, ArrayOf(filterOut(rm.meta.recs, id))),
                [blobs EXCEPT ![p.domainDir] = unlinkBlob(@, fileMeta.filename)],
                now, nextId, savedIn, req, seen,
                sendResponse(TRUE, IdData(id), "OK", 200))

\* app.delete("/file/:id")
DeleteFile(host, id) ==
    LET p == getDomainPaths(host)
        rm == readMeta(p.index, p.domainDir)
        req == Request("delete", host, id, NoString, Undefined)
        k == IF IsArray(rm.meta) THEN findIndex(rm.meta.recs, id) ELSE 0
        fileMeta == IF k = 0 THEN NoRec ELSE rm.meta.recs[k]
        files == blobs[p.domainDir]
        onDisk == k # 0 /\ fileMeta.filename \in DOMAIN files
        seen == Seen(index[p.domainDir], k # 0, onDisk)
    IN
    IF ~IsArray(rm.meta)
    THEN Finish(p.dirs, rm.index, blobs, now, nextId, savedIn, req, seen,
                sendResponse(FALSE, NoData, IOFailure, 500))
    ELSE IF k = 0
    THEN Finish(p.dirs, rm.index, blobs, now, nextId, savedIn, req, seen,
                sendResponse(FALSE, NoData, NotFound, 404))
    ELSE Finish(p.dirs,
                writeMeta(rm.index, p.domainDir, ArrayOf(filterOut(rm.meta.recs, id))),
                IF onDisk
                THEN [blobs EXCEPT ![p.domainDir] = unlinkBlob(@, fileMeta.filename)]
                ELSE blobs,
                now, nextId, savedIn, req, seen,
                sendResponse(TRUE, IdData(id), "OK", 200))

\* ------------------------------------------------------ the config handlers
\* path.join(BASE_DIR, host), the directory of getHostConfigPath(host)
hostDirOf(host) == pathJoin(BASE_DIR, host)
getHostConfigPath(host) == pathJoin(BASE_DIR, host)

\* Defect: the temporary file is written and never renamed.
saveConfigNoRename(cf, tmp, dir, data) ==
    [config |-> cf, configTmp |-> [tmp EXCEPT ![dir] = JSONstringify(data)]]

\* The config files and temporary files after saveConfigAtomic(filePath, data)
saveConfigAtomic(cf, tmp, dir, data) ==
    LET written == [tmp EXCEPT ![dir] = JSONstringify(data)] IN
    [config |-> [cf EXCEPT ![dir] = written[dir]],
     configTmp |-> [written EXCEPT ![dir] = AbsentConfig]]

\* typeof config === "object" && config !== null
validateConfig(c) == TypeOf(c) = "object" /\ c.type # "null"

\* req.body && Object.keys(req.body).length > 0, for a body of type object
\* or array whose number tells an empty one (0) from the others
hasKeys(body) == Truthy(body) /\ body.v # 0

\* The bodies of the /config responses; res.json alone answers 200.
configFound(host, c) == [success |-> TRUE, host |-> host, config |-> c, http |-> 200]
configCreated(host, c) ==
    [success |-> TRUE, host |-> host, config |-> c, created |-> TRUE, http |-> 200]
configSaved(host, c) ==
    [success |-> TRUE, message |-> "Config saved successfully", host |-> host,
     config |-> c, http |-> 200]
configError(message, statusCode) ==
    [success |-> FALSE, message |-> message, http |-> statusCode]

FinishConfig(ds, n, cf, tmp, req, seen, res) ==
    /\ dirs' = ds
    /\ nextId' = n
    /\ config' = cf
    /\ configTmp' = tmp
    /\ last' = [req |-> req, seen |-> seen, res |-> res]
    /\ UNCHANGED <<index, blobs, now, savedIn>>

\* Defect: the default document is returned and never written.
getConfigNoWrite(host) ==
    LET hostDir == hostDirOf(host)
        text == config[getHostConfigPath(host)]
        newConfig == newConfigOf(nextId)
    IN
    [dirs |-> ensureDirSync(dirs, hostDir),
     seen |-> Seen(AbsentFile, text.kind # "absent", FALSE),
     created |-> text.kind = "absent",
     nextId |-> IF text.kind = "absent" THEN nextId + 1 ELSE nextId,
     config |-> config,
     res |-> IF text.kind = "json" THEN configFound(host, JSONparse(text))
             ELSE IF text.kind = "partial"
             THEN configError("Error loading configuration", 500)
             ELSE configCreated(host, newConfig)]

\* The body of app.get("/config"): the directories and config files it
\* leaves, the identifier counter, what it saw and the response it sends.
getConfig(host) ==
    LET hostDir == hostDirOf(host)
        text == config[getHostConfigPath(host)]
        newConfig == newConfigOf(nextId)
    IN
    [dirs |-> ensureDirSync(dirs, hostDir),
     seen |-> Seen(AbsentFile, text.kind # "absent", FALSE),
     created |-> text.kind = "absent",
     nextId |-> IF text.kind = "absent" THEN nextId + 1 ELSE nextId,
     config |-> IF text.kind = "absent"
                THEN [config EXCEPT ![getHostConfigPath(host)] = JSONstringify(newConfig)]
                ELSE config,
     res |-> IF text.kind = "json" THEN configFound(host, JSONparse(text))
             ELSE IF text.kind = "partial"
             THEN configError("Error loading configuration", 500)
             ELSE configCreated(host, newConfig)]

\* app.get("/config")
GetConfig(host) ==
    LET g == getConfig(host) IN
    /\ g.created => nextId <= MaxDocs
    /\ FinishConfig(g.dirs, g.nextId, g.config, configTmp,
                    Request("getConfig", host, 0, NoString, Undefined), g.seen, g.res)

\* app.post("/config"); DEFAULT_CONFIG is declared nowhere, so reading it
\* throws a ReferenceError that the catch block answers.
PostConfig(host, body) ==
    LET hostDir == hostDirOf(host)
        ds == ensureDirSync(dirs, hostDir)
        req == Request("postConfig", host, 0, NoString, body)
        seen == Seen(AbsentFile, config[getHostConfigPath(host)].kind # "absent", FALSE)
        saved == saveConfigAtomic(config, configTmp, getHostConfigPath(host), body)
    IN
    IF ~hasKeys(body)
    THEN FinishConfig(ds, nextId, config, configTmp, req, seen,
                      configError("Error saving configuration", 500))
    ELSE IF ~validateConfig(body)
    THEN FinishConfig(ds, nextId, config, configTmp, req, seen,
                      configError("Invalid config format", 400))
    ELSE FinishConfig(ds, nextId, saved.config, saved.configTmp, req, seen,
                      configSaved(host, body))

\* ------------------------------------------------------------ the requests
\* A response is on its way to the client until the client takes it; the
\* handlers never read it.
Idle == last = NoRequest

Deliver ==
    /\ ~Idle
    /\ last' = NoRequest
    /\ UNCHANGED <<dirs, index, blobs, now, nextId, savedIn, config, configTmp>>

\* The requests of one kind, with display names drawn from N and data
\* fields from P.  No handler branches on a timestamp, and the clock is read
\* within the millisecond of the request before.
SaveOf(N, P) == Idle /\ \E h \in Hosts, n \in N, d \in P : SaveJson(h, n, d, now, now)
ListAny == Idle /\ \E h \in Hosts : ListFiles(h)
GetAny == Idle /\ \E h \in Hosts, i \in Ids : GetFile(h, i)
UpdateOf(N, P) ==
    Idle /\ \E h \in Hosts, i \in Ids, n \in N, d \in P : UpdateFile(h, i, n, d, now)
DeleteAny == Idle /\ \E h \in Hosts, i \in Ids : DeleteFile(h, i)

\* Display names: none, " ", "q", "r"
Names == { NoString, Str(<<" ">>), Str(<<"q">>), Str(<<"r">>) }

\* Data fields: two objects, a string, and no field at all
Payloads == { Json("object", 1), Json("object", 2), Json("string", 1), Undefined }

Save == SaveOf(Names, Payloads)
List == ListAny
Get == GetAny
Update == UpdateOf(Names, Payloads)
Delete == DeleteAny

Next == Save \/ List \/ Get \/ Update \/ Delete \/ Deliver

\* The requests of the API on a file system nothing else touches.
Spec == Init /\ [][Next]_vars

\* ----------------------------------------------- every type of data field
AllPayloads ==
    { Json("object", 1), Json("array", 1), Json("null", 0),
      Json("string", 1), Json("string", 0), Json("number", 1), Json("number", 0),
      Json("boolean", 1), Json("boolean", 0), Undefined }

OneName == { NoString, Str(<<"q">>) }

SaveTyped == SaveOf(OneName, AllPayloads)
UpdateTyped == UpdateOf(OneName, AllPayloads)

NextTypes == SaveTyped \/ UpdateTyped \/ GetAny \/ DeleteAny \/ Deliver

SpecTypes == Init /\ [][NextTypes]_vars

\* ------------------------------------------- blob files removed from disk
TwoNames == { Str(<<"q">>), Str(<<"r">>) }
OnePayload == { Json("object", 1), Undefined }

SavePlain == SaveOf(TwoNames, OnePayload)
UpdatePlain == UpdateOf(TwoNames, OnePayload)

\* Something other than the server removes a blob file.
RemoveBlob ==
    /\ Idle
    /\ \E d \in AllDirs : \E f \in DOMAIN blobs[d] :
            blobs' = [blobs EXCEPT ![d] = unlinkBlob(@, f)]
    /\ UNCHANGED <<dirs, index, now, nextId, savedIn, last, config, configTmp>>

NextBlobLoss ==
    SavePlain \/ ListAny \/ GetAny \/ UpdatePlain \/ DeleteAny \/ RemoveBlob \/ Deliver

SpecBlobLoss == Init /\ [][NextBlobLoss]_vars

\* ------------------------------------------ every refusal of a mutation
\* The save, update and delete requests that every client error answers:
\* blank and used display names, absent data, unknown ids, lost blob files.
SaveRefusable == SaveOf(Names, OnePayload)
UpdateRefusable == UpdateOf(TwoNames, OnePayload)

NextRejects == SaveRefusable \/ UpdateRefusable \/ DeleteAny \/ RemoveBlob \/ Deliver

SpecRejects == Init /\ [][NextRejects]_vars

\* --------------------------------------------- index files written over
CorruptFiles ==
    { EmptyFile, GarbageFile, JsonFile("object"), JsonFile("null"), JsonFile("number") }

\* Something other than the server (or a crash in the middle of a write)
\* leaves the index file of an existing tenant directory with other content.
CorruptIndex ==
    /\ Idle
    /\ \E d \in AllDirs \cap dirs : \E text \in CorruptFiles :
            index' = [index EXCEPT ![d] = text]
    /\ UNCHANGED <<dirs, blobs, now, nextId, savedIn, last, config, configTmp>>

NextCorrupt ==
    SavePlain \/ ListAny \/ GetAny \/ UpdatePlain \/ DeleteAny \/ CorruptIndex \/ Deliver

SpecCorrupt == Init /\ [][NextCorrupt]_vars

\* ------------------------------------------------------ the config requests
\* The bodies express.json hands to the handler: {} (also when the request
\* has no body), two objects with keys, and an array with elements.
ConfigBodies == { Json("object", 0), Json("object", 1), Json("object", 2), Json("array", 1) }

GetConfigAny == Idle /\ \E h \in Hosts : GetConfig(h)
PostConfigAny == Idle /\ \E h \in Hosts, b \in ConfigBodies : PostConfig(h, b)

NextConfig == GetConfigAny \/ PostConfigAny \/ ListAny \/ Deliver

SpecConfig == Init /\ [][NextConfig]_vars

\* ------------------------------------------ a crash during a config write
\* The process dies inside fs.writeFileSync of the default document: the
\* file is left with the beginning of the text, and no response is sent.
GetConfigCrash(host) ==
    /\ config[getHostConfigPath(host)].kind = "absent"
    /\ nextId <= MaxDocs
    /\ dirs' = ensureDirSync(dirs, hostDirOf(host))
    /\ nextId' = nextId + 1
    /\ config' = [config EXCEPT ![getHostConfigPath(host)] = PartialConfig]
    /\ UNCHANGED <<index, blobs, now, savedIn, last, configTmp>>

\* The process dies inside saveConfigAtomic: in the write of the temporary
\* file, or between that write and the rename.
PostConfigCrash(host, body, point) ==
    /\ hasKeys(body)
    /\ validateConfig(body)
    /\ dirs' = ensureDirSync(dirs, hostDirOf(host))
    /\ configTmp' = [configTmp EXCEPT ![getHostConfigPath(host)] =
                        IF point = "write" THEN PartialConfig ELSE JSONstringify(body)]
    /\ UNCHANGED <<index, blobs, now, nextId, savedIn, last, config>>

CrashInGetConfig == Idle /\ \E h \in Hosts : GetConfigCrash(h)
CrashInPostConfig ==
    Idle /\ \E h \in Hosts, b \in ConfigBodies, point \in {"write", "rename"} :
                PostConfigCrash(h, b, point)

NextConfigCrash ==
    GetConfigAny \/ PostConfigAny \/ CrashInGetConfig \/ CrashInPostConfig \/ Deliver

SpecConfigCrash == Init /\ [][NextConfigCrash]_vars

\* ------------------------------------------------- resolution of a request
\* The header values a request can combine: the override header (none, a
\* host with a port, one with a character outside the class, a path
\* segment), the origin (none, malformed, with and without a written port,
\* http and https) and the transport host.
ResolveHeaders ==
    [xhost : {<<>>, <<"a", ":", "1">>, <<"a", "/", "b">>, <<".", ".">>},
     origin : {NoOrigin, BadOrigin,
               Origin("http", <<"a">>, <<>>), Origin("http", <<"a">>, <<"1">>),
               Origin("https", <<"a">>, <<>>), Origin("https", <<"a">>, <<"4", "4", "3">>),
               Origin("http", <<"b">>, <<"8", "0">>)},
     host : {<<"s">>, <<"b", ":", "1">>, <<"a">>}]

\* A request arrives with its headers.
Arrive ==
    /\ last.req.op # "incoming"
    /\ \E h \in ResolveHeaders :
            last' = [req |-> [op |-> "incoming", headers |-> h, host |-> NoHost],
                     seen |-> NoRequest.seen, res |-> NoRequest.res]
    /\ UNCHANGED <<dirs, index, blobs, now, nextId, savedIn, config, configTmp>>

\* const host = getEffectiveHost(req), the first statement of every handler
Resolve ==
    /\ last.req.op = "incoming"
    /\ last' = [last EXCEPT !.req.op = "resolved",
                            !.req.host = getEffectiveHost(last.req.headers)]
    /\ UNCHANGED <<dirs, index, blobs, now, nextId, savedIn, config, configTmp>>

NextResolve == Arrive \/ Resolve

SpecResolve == Init /\ [][NextResolve]_vars

\* ------------------------------------- override headers that are segments
PathSave ==
    Idle /\ \E h \in PathHosts, n \in TwoNames, d \in OnePayload : SaveJson(h, n, d, now, now)
PathList == Idle /\ \E h \in PathHosts : ListFiles(h)
PathGetConfig == Idle /\ \E h \in PathHosts : GetConfig(h)

NextPaths == PathSave \/ PathList \/ PathGetConfig \/ Deliver

SpecPaths == Init /\ [][NextPaths]_vars

\* ---------------------------------------------------- the clock advances
\* Every reading of new Date() is at or after the one before it.
ClockSave ==
    Idle /\ \E h \in Hosts, n \in TwoNames, c1 \in now..MaxClock :
                \E c2 \in c1..MaxClock : SaveJson(h, n, Json("object", 1), c1, c2)
ClockUpdate ==
    Idle /\ \E h \in Hosts, i \in Ids, c \in now..MaxClock :
                UpdateFile(h, i, NoString, Json("object", 2), c)

NextClock == ClockSave \/ ClockUpdate \/ ListAny \/ DeleteAny \/ Deliver

SpecClock == Init /\ [][NextClock]_vars

\* ------------------------------------- every shape of update, clock advancing
\* The update requests with and without a displayName and a data field.
ClockUpdateAny ==
    Idle /\ \E h \in Hosts, i \in Ids, n \in {NoString, Str(<<"r">>)}, d \in OnePayload,
               c \in now..MaxClock : UpdateFile(h, i, n, d, c)

NextTouch == ClockSave \/ ClockUpdateAny \/ GetAny \/ Deliver

SpecTouch == Init /\ [][NextTouch]_vars

\* ------------------------------------------ a crash during an index write
\* What fs.writeFileSync leaves of the index file when the process dies
\* inside it: the file is truncated on open, so it is empty or holds the
\* beginning of the JSON text, which does not parse.
CutFiles == { EmptyFile, GarbageFile }

\* POST /save-json dies inside writeMeta: the blob file is written, the
\* index file is cut, and no response is sent.
SaveJsonCrash(host, displayName, data, cut) ==
    LET p == getDomainPaths(host)
        rm == readMeta(p.index, p.domainDir)
    IN
    /\ ~invalidData(data)
    /\ ~missingName(displayName)
    /\ IsArray(rm.meta)
    /\ ~someNamed(rm.meta.recs, displayName.s)
    /\ nextId <= MaxDocs
    /\ dirs' = p.dirs
    /\ blobs' = [blobs EXCEPT ![p.domainDir] =
                    writeBlob(@, fileNameOf(nextId), JSONstringify(data))]
    /\ index' = [rm.index EXCEPT ![p.domainDir] = cut]
    /\ nextId' = nextId + 1
    /\ savedIn' = [savedIn EXCEPT ![nextId] = host]
    /\ UNCHANGED <<now, last, config, configTmp>>

\* PUT /file/:id dies inside writeMeta.
UpdateFileCrash(host, id, newDisplayName, data, cut) ==
    LET p == getDomainPaths(host)
        rm == readMeta(p.index, p.domainDir)
        k == IF IsArray(rm.meta) THEN findIndex(rm.meta.recs, id) ELSE 0
        fileMeta == IF k = 0 THEN NoRec ELSE rm.meta.recs[k]
        rename == newDisplayName.given /\ newDisplayName.s # <<>>
                  /\ newDisplayName.s # fileMeta.displayName
    IN
    /\ k # 0
    /\ fileMeta.filename \in DOMAIN blobs[p.domainDir]
    /\ ~(rename /\ someOtherNamed(rm.meta.recs, newDisplayName.s, id))
    /\ dirs' = p.dirs
    /\ blobs' = IF Truthy(data) /\ TypeOf(data) = "object"
                THEN [blobs EXCEPT ![p.domainDir] =
                        writeBlob(@, fileMeta.filename, JSONstringify(data))]
                ELSE blobs
    /\ index' = [rm.index EXCEPT ![p.domainDir] = cut]
    /\ UNCHANGED <<now, nextId, savedIn, last, config, configTmp>>

\* DELETE /file/:id dies inside writeMeta: the blob file is gone already.
DeleteFileCrash(host, id, cut) ==
    LET p == getDomainPaths(host)
        rm == readMeta(p.index, p.domainDir)
        k == IF IsArray(rm.meta) THEN findIndex(rm.meta.recs, id) ELSE 0
        fileMeta == IF k = 0 THEN NoRec ELSE rm.meta.recs[k]
    IN
    /\ k # 0
    /\ dirs' = p.dirs
    /\ blobs' = IF fileMeta.filename \in DOMAIN blobs[p.domainDir]
                THEN [blobs EXCEPT ![p.domainDir] = unlinkBlob(@, fileMeta.filename)]
                ELSE blobs
    /\ index' = [rm.index EXCEPT ![p.domainDir] = cut]
    /\ UNCHANGED <<now, nextId, savedIn, last, config, configTmp>>

CrashInSave ==
    Idle /\ \E h \in Hosts, n \in TwoNames, d \in OnePayload, cut \in CutFiles :
                SaveJsonCrash(h, n, d, cut)
CrashInUpdate ==
    Idle /\ \E h \in Hosts, i \in Ids, n \in TwoNames, d \in OnePayload, cut \in CutFiles :
                UpdateFileCrash(h, i, n, d, cut)
CrashInDelete ==
    Idle /\ \E h \in Hosts, i \in Ids, cut \in CutFiles : DeleteFileCrash(h, i, cut)

NextCrash ==
    \/ SavePlain \/ ListAny \/ UpdatePlain \/ DeleteAny \/ Deliver
    \/ CrashInSave \/ CrashInUpdate \/ CrashInDelete

SpecCrash == Init /\ [][NextCrash]_vars

\* ------------------------------------ a crash at any point of a save
\* What fs.writeFileSync leaves of a blob file when the process dies inside
\* it: the beginning of the JSON text.
PartialBlob == [kind |-> "partial", value |-> Undefined]

\* Defect: the record is persisted before the blob file is written, and the
\* process dies between the two.
SaveJsonCrashIndexFirst(host, displayName, data, written) ==
    LET p == getDomainPaths(host)
        rm == readMeta(p.index, p.domainDir)
        newFileInfo == [id |-> nextId, filename |-> fileNameOf(nextId),
                        displayName |-> displayName.s,
                        createdAt |-> now, updatedAt |-> now]
    IN
    /\ ~invalidData(data)
    /\ ~missingName(displayName)
    /\ IsArray(rm.meta)
    /\ ~someNamed(rm.meta.recs, displayName.s)
    /\ nextId <= MaxDocs
    /\ dirs' = p.dirs
    /\ blobs' = blobs
    /\ index' = writeMeta(rm.index, p.domainDir,
                          ArrayOf(Append(rm.meta.recs, newFileInfo)))
    /\ nextId' = nextId + 1
    /\ savedIn' = [savedIn EXCEPT ![nextId] = host]
    /\ UNCHANGED <<now, last, config, configTmp>>

\* POST /save-json dies before writeMeta is called: before the blob file is
\* opened ("none"), inside its write ("partial"), or after it ("whole").
\* The index file is as readMeta left it, and no response is sent.
SaveJsonCrashEarly(host, displayName, data, written) ==
    LET p == getDomainPaths(host)
        rm == readMeta(p.index, p.domainDir)
    IN
    /\ ~invalidData(data)
    /\ ~missingName(displayName)
    /\ IsArray(rm.meta)
    /\ ~someNamed(rm.meta.recs, displayName.s)
    /\ nextId <= MaxDocs
    /\ dirs' = p.dirs
    /\ blobs' = IF written = "none" THEN blobs
                ELSE [blobs EXCEPT ![p.domainDir] =
                        writeBlob(@, fileNameOf(nextId),
                                  IF written = "partial" THEN PartialBlob
                                  ELSE JSONstringify(data))]
    /\ index' = rm.index
    /\ nextId' = nextId + 1
    /\ savedIn' = [savedIn EXCEPT ![nextId] = host]
    /\ UNCHANGED <<now, last, config, configTmp>>

CrashEarlyInSave ==
    Idle /\ \E h \in Hosts, n \in TwoNames, d \in OnePayload,
               written \in {"none", "partial", "whole"} :
                SaveJsonCrashEarly(h, n, d, written)

NextSaveCrash ==
    \/ SavePlain \/ ListAny \/ GetAny \/ UpdatePlain \/ DeleteAny \/ Deliver
    \/ CrashEarlyInSave \/ CrashInSave

SpecSaveCrash == Init /\ [][NextSaveCrash]_vars

\* ------------------------------------------- requests that arrive together
\* Every handler is one synchronous function: it reads, changes and writes
\* the index file with the Sync calls of fs and never awaits, so the event
\* loop runs the handlers of requests that arrived together one after
\* another, in any order, each to its end.  A handler starts while the
\* response of the one before it is still on its way.
ConcurrentSave ==
    \E h \in Hosts, n \in TwoNames : SaveJson(h, n, Json("object", 1), now, now)
ConcurrentUpdate ==
    \E h \in Hosts, i \in Ids, n \in {NoString, Str(<<"r">>)}, d \in OnePayload :
        UpdateFile(h, i, n, d, now)
ConcurrentList == \E h \in Hosts : ListFiles(h)

NextConcurrent == ConcurrentSave \/ ConcurrentUpdate \/ ConcurrentList

SpecConcurrent == Init /\ [][NextConcurrent]_vars

\* ================================================================ claims
\* The records of a host's index file, and the identifiers among records.
RecsOf(host) == index[domainDirOf(host)].recs
IdsIn(recs) == {recs[i].id : i \in 1..Len(recs)}
NamesIn(recs) == {recs[i].displayName : i \in 1..Len(recs)}
AnsweredBy(op) == last.req.op = op
Answered(msg, code) == last.res.message = msg /\ last.res.statusCode = code

\* C1. Tenant isolation: a document saved under one host is never in the
\* index of another host, never in a list another host is answered with,
\* and a get of its id under another host answers NotFound (404).
C1_TenantIsolation ==
    \A id \in Ids : \A t2 \in Hosts :
        (savedIn[id] # NoHost /\ t2 # savedIn[id]) =>
            /\ id \notin IdsIn(RecsOf(t2))
            /\ (AnsweredBy("list") /\ last.req.host = t2)
                    => id \notin IdsIn(last.res.data.list)
            /\ (AnsweredBy("get") /\ last.req.host = t2 /\ last.req.id = id)
                    => Answered(NotFound, 404)

\* A get under one host of a document that another host holds.
C1_Witness ==
    /\ AnsweredBy("get")
    /\ savedIn[last.req.id] \notin {NoHost, last.req.host}
    /\ last.req.id \in IdsIn(RecsOf(savedIn[last.req.id]))
    /\ Answered(NotFound, 404)

\* C2. Read your writes: right after a successful save, and right after a
\* successful update that carries a data field, a get of the document in the
\* same host returns that data; right after a successful delete it answers
\* NotFound (404).
C2_ReadYourWrites ==
    /\ (AnsweredBy("save") /\ last.res.status) =>
            LET g == getFile(last.req.host, last.res.data.rec.id).res
            IN g.status /\ g.data.body = last.req.data
    /\ (AnsweredBy("update") /\ last.res.status /\ last.req.data # Undefined) =>
            LET g == getFile(last.req.host, last.req.id).res
            IN g.status /\ g.data.body = last.req.data
    /\ (AnsweredBy("delete") /\ last.res.status) =>
            LET g == getFile(last.req.host, last.req.id).res
            IN g.message = NotFound /\ g.statusCode = 404

\* C3. No two records of one index have the same displayName.
UniqueNames ==
    \A d \in AllDirs : \A i, j \in 1..Len(index[d].recs) :
        i # j => index[d].recs[i].displayName # index[d].recs[j].displayName

\* The request answered by this step finds the name n on a record / on a
\* record other than the one with the request's id / on that very record.
NameUsed == last'.req.name.s \in NamesIn(RecsOf(last'.req.host))
NameOfOther ==
    \E i, j \in 1..Len(RecsOf(last'.req.host)) :
        LET recs == RecsOf(last'.req.host) IN
        /\ recs[i].id = last'.req.id
        /\ recs[i].displayName # last'.req.name.s
        /\ recs[j].id # last'.req.id
        /\ recs[j].displayName = last'.req.name.s
NameOfSelf ==
    \E i \in 1..Len(RecsOf(last'.req.host)) :
        /\ RecsOf(last'.req.host)[i].id = last'.req.id
        /\ RecsOf(last'.req.host)[i].displayName = last'.req.name.s
Rejected(msg, code) ==
    /\ last'.res.message = msg
    /\ last'.res.statusCode = code
    /\ index' = index
    /\ blobs' = blobs

UpdateNameSteps ==
    /\ (last'.req.op = "update" /\ last'.req.name.given /\ NameOfOther)
            => Rejected(DuplicateName, 400)
    /\ (last'.req.op = "update" /\ last'.req.name.given /\ NameOfSelf)
            => last'.res.status

C4_IndexBlobConsistent ==
    \A d \in AllDirs :
        /\ \A i \in 1..Len(index[d].recs) :
                index[d].recs[i].filename \in DOMAIN blobs[d]
        /\ \A i, j \in 1..Len(index[d].recs) :
                i # j => index[d].recs[i].filename # index[d].recs[j].filename

\* A delete has succeeded and its index still holds another record.
C4_Witness ==
    /\ AnsweredBy("delete")
    /\ last.res.status
    /\ RecsOf(last.req.host) # <<>>

\* The directory of the request this step answers, the records its index
\* file held before the step, and those it holds after.
DirOfStep == domainDirOf(last'.req.host)
RecsBefore == index[DirOfStep].recs
RecsAfter == index'[DirOfStep].recs
BlobMissingBefore ==
    \E i \in 1..Len(RecsBefore) :
        /\ RecsBefore[i].id = last'.req.id
        /\ RecsBefore[i].filename \notin DOMAIN blobs[DirOfStep]

\* C5. A delete of an id that no record has answers NotFound (404) and
\* changes neither the records nor the blob files; a delete of an id that a
\* record has succeeds, whether the blob file is on disk or not, and leaves
\* neither the record nor the blob file.
C5_DeleteIdempotent ==
    [][last'.req.op = "delete" =>
        /\ last'.req.id \notin IdsIn(RecsBefore) =>
                /\ last'.res.message = NotFound
                /\ last'.res.statusCode = 404
                /\ RecsAfter = RecsBefore
                /\ blobs' = blobs
        /\ last'.req.id \in IdsIn(RecsBefore) =>
                /\ last'.res.status
                /\ last'.res.statusCode = 200
                /\ last'.req.id \notin IdsIn(RecsAfter)
                /\ fileNameOf(last'.req.id) \notin DOMAIN blobs'[DirOfStep]]_vars

\* A delete has succeeded on a record whose blob file was not on disk.
C5_Witness ==
    /\ AnsweredBy("delete")
    /\ last.seen.found
    /\ ~last.seen.onDisk
    /\ last.res.status

\* C6. A get of an id that no record has answers NotFound (404); a get of a
\* record whose blob file is missing answers NotFoundOnDisk (404) and
\* changes no directory, index file or blob file.
C6_GetReportsDivergence ==
    [][last'.req.op = "get" =>
        /\ last'.req.id \notin IdsIn(RecsBefore) =>
                /\ last'.res.message = NotFound
                /\ last'.res.statusCode = 404
        /\ BlobMissingBefore =>
                /\ last'.res.message = NotFoundOnDisk
                /\ last'.res.statusCode = 404
                /\ dirs' = dirs
                /\ index' = index
                /\ blobs' = blobs]_vars

\* A get has found the record and not its blob file.
C6_Witness ==
    /\ AnsweredBy("get")
    /\ Answered(NotFoundOnDisk, 404)
    /\ last.req.id \in IdsIn(RecsOf(last.req.host))
    /\ fileNameOf(last.req.id) \notin DOMAIN blobs[domainDirOf(last.req.host)]

\* C7. A list of a host whose index file is empty or does not parse succeeds
\* with the empty list and leaves the file holding the empty collection.
C7_ListHealsIndex ==
    [][(last'.req.op = "list" /\ index[DirOfStep].kind \in {"empty", "garbage"}) =>
        /\ last'.res.status
        /\ last'.res.statusCode = 200
        /\ last'.res.data.list = <<>>
        /\ index'[DirOfStep] = stringifyMeta(ArrayOf(<<>>))]_vars

\* A list has found an index file that does not parse.
C7_Witness ==
    /\ AnsweredBy("list")
    /\ last.seen.index = "garbage"
    /\ last.res.status

\* C8. Whatever corrupt content a request finds in the index file (empty,
\* unparseable, or JSON that is no collection), it is not answered with 500.
C8_CorruptionNeverSurfaces ==
    (/\ ~AnsweredBy("none")
     /\ last.seen.index \in {"empty", "garbage", "object", "null", "number"})
        => last.res.statusCode # 500

\* C9. A save whose data is absent or no JSON object is answered with
\* InvalidPayload (400), writes no blob file and appends no record.
C9_SaveRejectsNonObject ==
    [][(last'.req.op = "save" /\ ~IsJsonObject(last'.req.data)) =>
        /\ last'.res.message = InvalidPayload
        /\ last'.res.statusCode = 400
        /\ RecsAfter = RecsBefore
        /\ blobs' = blobs]_vars

\* C10. An update of an existing record whose data is given and no JSON
\* object is answered with InvalidPayload (400) and changes neither the
\* record nor a blob file.
C10_UpdateRejectsNonObject ==
    [][(/\ last'.req.op = "update"
        /\ last'.req.id \in IdsIn(RecsBefore)
        /\ last'.req.data # Undefined
        /\ ~IsJsonObject(last'.req.data)) =>
        /\ last'.res.message = InvalidPayload
        /\ last'.res.statusCode = 400
        /\ RecsAfter = RecsBefore
        /\ blobs' = blobs]_vars

\* The config file of the request this step answers, before the step.
ConfigBefore == config[hostDirOf(last'.req.host)]
ConfigAfter == config'[hostDirOf(last'.req.host)]
IdsOfConfigs ==
    {config[d].value.id : d \in {e \in StoreDirs : "id" \in DOMAIN config[e].value}}

\* C11. A get of the config of a host that has none answers with the default
\* document under an identifier no config holds, with created = true, and
\* leaves that document in the config file; a get of a host that has a
\* config answers with the document of the file, without created, and
\* changes no config file; no other request than a put changes one.
C11_ConfigProvisionedOnce ==
    [][/\ (last'.req.op = "getConfig" /\ ConfigBefore.kind = "absent") =>
            /\ last'.res.success
            /\ "created" \in DOMAIN last'.res
            /\ last'.res.created
            /\ "id" \in DOMAIN last'.res.config
            /\ last'.res.config.id \notin IdsOfConfigs
            /\ ConfigAfter = JSONstringify(last'.res.config)
       /\ (last'.req.op = "getConfig" /\ ConfigBefore.kind = "json") =>
            /\ last'.res.success
            /\ "created" \notin DOMAIN last'.res
            /\ last'.res.config = JSONparse(ConfigBefore)
            /\ config' = config
       /\ last'.req.op \notin {"getConfig", "postConfig"} => config' = config]_vars

\* A get has answered with the default document that an earlier get created.
C11_Witness ==
    /\ AnsweredBy("getConfig")
    /\ last.res.success
    /\ "created" \notin DOMAIN last.res
    /\ "id" \in DOMAIN last.res.config

\* C12. Every config file is absent or holds one complete document, also
\* after the process died in the middle of a config write.
C12_ConfigNeverPartial ==
    \A d \in StoreDirs : config[d].kind \in {"absent", "json"}

\* C13. A put of the config with an empty body succeeds and stores a default
\* template, which it returns; a put whose body is no JSON object is answered
\* with 400 and leaves every config file as it was.
C13_PutConfigValidates ==
    [][last'.req.op = "postConfig" =>
        /\ last'.req.data = Json("object", 0) =>
                /\ last'.res.success
                /\ last'.res.http = 200
                /\ ConfigAfter.kind = "json"
                /\ last'.res.config = JSONparse(ConfigAfter)
        /\ ~IsJsonObject(last'.req.data) =>
                /\ ~last'.res.success
                /\ last'.res.http = 400
                /\ config' = config]_vars

\* C14. Right after a successful put of an object with keys, a get of the
\* host answers with that object, without created; a put changes the config
\* file of no other host, and no other request changes a config file that
\* holds a document.
C14_ConfigRoundTrip ==
    /\ [](( /\ AnsweredBy("postConfig")
            /\ last.res.success
            /\ IsJsonObject(last.req.data)
            /\ hasKeys(last.req.data)) =>
                LET g == getConfig(last.req.host).res IN
                /\ g.success
                /\ g.config = last.req.data
                /\ "created" \notin DOMAIN g)
    /\ [][/\ last'.req.op = "postConfig" =>
                \A d \in StoreDirs \ {hostDirOf(last'.req.host)} : config'[d] = config[d]
          /\ last'.req.op # "postConfig" =>
                \A d \in StoreDirs : config[d].kind = "json" => config'[d] = config[d]]_vars

\* A put has succeeded while another host holds a config of its own.
C14_Witness ==
    /\ AnsweredBy("postConfig")
    /\ last.res.success
    /\ IsJsonObject(last.req.data)
    /\ \E d \in StoreDirs \ {hostDirOf(last.req.host)} :
            /\ config[d].kind = "json"
            /\ config[d] # config[hostDirOf(last.req.host)]

\* The ports an origin can stand for: the one it writes, or a default port
\* when it writes none or writes the default port of its scheme.
PortsOf(o) ==
    IF o.port # <<>> /\ o.port # DefaultPort(o.scheme) THEN {o.port}
    ELSE {DefaultPort("http"), DefaultPort("https")}

IsTenantDir(d) == Len(d) = Len(BASE_DIR) + 1 /\ SubSeq(d, 1, Len(BASE_DIR)) = BASE_DIR

\* C16. Every directory that holds an index file, a blob file or a config
\* file lies directly below the storage root.
C16_TenantDirBelowRoot ==
    \A d \in StoreDirs :
        (\/ index[d].kind # "absent"
         \/ DOMAIN blobs[d] # {}
         \/ config[d].kind # "absent") => IsTenantDir(d)

\* C17. The body of every response has exactly the fields status, data,
\* message and statusCode, and statusCode is the status code of the response.
C17_UniformEnvelope ==
    ~Idle =>
        /\ DOMAIN last.res \ {"http"} = {"status", "data", "message", "statusCode"}
        /\ last.res.status \in BOOLEAN
        /\ last.res.statusCode = last.res.http

\* C18. A save whose body holds a filename label and a JSON object (and so no
\* displayName field, the only name field the handler reads) on a host with
\* no record succeeds with 200 and a generated id, and leaves exactly one
\* record in the index.
C18_SaveWithFilenameLabel ==
    [][(/\ last'.req.op = "save"
        /\ ~last'.req.name.given
        /\ IsJsonObject(last'.req.data)
        /\ RecsBefore = <<>>) =>
            /\ last'.res.status
            /\ last'.res.statusCode = 200
            /\ last'.res.data.rec.id \in Ids
            /\ Len(RecsAfter) = 1]_vars

\* C19. A list answers with the records of the index file, each once and
\* none missing, each of a document saved under the host, in non-increasing
\* order of createdAt, and changes no blob file.
C19_ListSortedComplete ==
    [][last'.req.op = "list" =>
        LET l == last'.res.data.list IN
        /\ last'.res.status
        /\ Len(l) = Len(RecsBefore)
        /\ {l[i] : i \in 1..Len(l)} = {RecsBefore[i] : i \in 1..Len(RecsBefore)}
        /\ \A i, j \in 1..Len(l) : i # j => l[i].id # l[j].id
        /\ \A i \in 1..Len(l) : savedIn[l[i].id] = last'.req.host
        /\ \A i, j \in 1..Len(l) : i < j => l[i].createdAt >= l[j].createdAt
        /\ blobs' = blobs]_vars

\* A list has answered with two records in the reverse of their order in
\* the index file.
C19_Witness ==
    /\ AnsweredBy("list")
    /\ Len(last.res.data.list) = 2
    /\ last.res.data.list[1].createdAt > last.res.data.list[2].createdAt
    /\ RecsOf(last.req.host)[1] = last.res.data.list[2]

\* C20. Every index file is absent or holds a complete collection of
\* records, also after the process died in the middle of persisting it.
C20_IndexNeverPartial ==
    \A d \in StoreDirs :
        \/ index[d].kind = "absent"
        \/ index[d].kind = "json" /\ index[d].type = "array"

\* C21. Requests that arrive together are handled one after another, none
\* inside the load, change and persist of another: every document whose save
\* succeeded is a record of its host's index, once; a successful save adds
\* its record to the records the index held and drops none; a successful
\* update keeps the identifiers of all of them.
C21_NoLostUpdate ==
    /\ [](\A id \in Ids : savedIn[id] # NoHost =>
            \E i \in 1..Len(RecsOf(savedIn[id])) :
                /\ RecsOf(savedIn[id])[i].id = id
                /\ \A j \in 1..Len(RecsOf(savedIn[id])) :
                        RecsOf(savedIn[id])[j].id = id => j = i)
    /\ [][/\ (last'.req.op = "save" /\ last'.res.status)
                => RecsAfter = Append(RecsBefore, last'.res.data.rec)
          /\ (last'.req.op = "update" /\ last'.res.status)
                => /\ Len(RecsAfter) = Len(RecsBefore)
                   /\ IdsIn(RecsAfter) = IdsIn(RecsBefore)]_vars

\* Two saves of one host have succeeded, an update of one of the documents
\* has succeeded after them, and the index holds both records.
C21_Witness ==
    /\ AnsweredBy("update")
    /\ last.res.status
    /\ savedIn[1] = last.req.host
    /\ savedIn[2] = last.req.host
    /\ IdsIn(RecsOf(last.req.host)) = {1, 2}

\* C22. The record a successful save returns, and the one it persists in
\* the index, have createdAt equal to updatedAt.
C22_SingleSaveTime ==
    [][(last'.req.op = "save" /\ last'.res.status) =>
            /\ last'.res.data.rec.createdAt = last'.res.data.rec.updatedAt
            /\ \A i \in 1..Len(RecsAfter) :
                    RecsAfter[i].id = last'.res.data.rec.id
                        => RecsAfter[i].createdAt = RecsAfter[i].updatedAt]_vars

\* C23. Every successful update, with or without a data field and with or
\* without a displayName, leaves the id, the filename and the createdAt of
\* its record as they were, sets its updatedAt to the time the handler read,
\* and returns the record it persisted; in every state the updatedAt of a
\* record is at or after its createdAt.
C23_UpdateKeepsIdentity ==
    /\ [](\A d \in AllDirs : \A i \in 1..Len(index[d].recs) :
            index[d].recs[i].updatedAt >= index[d].recs[i].createdAt)
    /\ [][(last'.req.op = "update" /\ last'.res.status) =>
            /\ Len(RecsAfter) = Len(RecsBefore)
            /\ \A i \in 1..Len(RecsBefore) : RecsBefore[i].id = last'.req.id =>
                    /\ RecsAfter[i].id = RecsBefore[i].id
                    /\ RecsAfter[i].filename = RecsBefore[i].filename
                    /\ RecsAfter[i].createdAt = RecsBefore[i].createdAt
                    /\ RecsAfter[i].updatedAt = now'
                    /\ last'.res.data.rec = RecsAfter[i]]_vars

\* An update with neither a displayName nor a data field has succeeded
\* after the clock advanced past the save of its record.
C23_Witness ==
    /\ AnsweredBy("update")
    /\ last.res.status
    /\ ~last.req.name.given
    /\ last.req.data = Undefined
    /\ last.res.data.rec.updatedAt > last.res.data.rec.createdAt
    /\ last.res.data.rec.updatedAt = now

\* C24. The name of a blob file is never the caller's: every successful
\* save, whatever its displayName and data, writes exactly one blob file, in
\* the directory of its host, named by the generated id followed by ".json",
\* and in every state every record of every index has that id and ".json"
\* as its filename.
C24_BlobNamedById ==
    /\ [](\A d \in AllDirs : \A i \in 1..Len(index[d].recs) :
            /\ index[d].recs[i].filename.stem = index[d].recs[i].id
            /\ index[d].recs[i].filename.ext = ".json")
    /\ [][(last'.req.op = "save" /\ last'.res.status) =>
            LET name == [stem |-> nextId, ext |-> ".json"] IN
            /\ last'.res.data.rec.id = nextId
            /\ DOMAIN blobs'[DirOfStep] = DOMAIN blobs[DirOfStep] \cup {name}
            /\ blobs'[DirOfStep][name] = JSONstringify(last'.req.data)
            /\ \A f \in DOMAIN blobs[DirOfStep] \ {name} :
                    blobs'[DirOfStep][f] = blobs[DirOfStep][f]
            /\ \A d \in AllDirs \ {DirOfStep} : blobs'[d] = blobs[d]]_vars

\* A second document has been saved, under the displayName "q", in the
\* host of the first, and its blob file exists under its id.
C24_Witness ==
    /\ AnsweredBy("save")
    /\ last.res.status
    /\ last.res.data.rec.id = 2
    /\ last.req.name.s = <<"q">>
    /\ Len(RecsOf(last.req.host)) = 2
    /\ [stem |-> 2, ext |-> ".json"] \in DOMAIN blobs[domainDirOf(last.req.host)]

\* C25. Save writes the blob file before it persists the record: whatever
\* the point at which a save dies, every record of every index names a blob
\* file that exists; a blob file without a record is in no list, and a get
\* of its id answers NotFound (404).
C25_SaveCrashLeavesNoDanglingRecord ==
    /\ \A d \in AllDirs : \A i \in 1..Len(index[d].recs) :
            \E f \in DOMAIN blobs[d] : f = index[d].recs[i].filename
    /\ AnsweredBy("list") =>
            \A i \in 1..Len(last.res.data.list) :
                last.res.data.list[i].filename
                    \in DOMAIN blobs[domainDirOf(last.req.host)]
    /\ (AnsweredBy("get") /\ last.req.id \notin IdsIn(RecsOf(last.req.host)))
            => Answered(NotFound, 404)

\* A save died after its blob file was written: the file has no record, and
\* a get of its id has answered NotFound.
C25_Witness ==
    /\ AnsweredBy("get")
    /\ Answered(NotFound, 404)
    /\ [stem |-> last.req.id, ext |-> ".json"]
            \in DOMAIN blobs[domainDirOf(last.req.host)]
    /\ last.req.id \notin IdsIn(RecsOf(last.req.host))
    /\ RecsOf(last.req.host) # <<>>

\* C26. A save, update or delete answered with a client error (400 or 404:
\* InvalidPayload, MissingRequiredField, DuplicateName, NotFound,
\* NotFoundOnDisk) leaves the records of its host's index, with every
\* displayName and updatedAt, every other index file and every blob file
\* as they were before the request.
C26_RefusalChangesNothing ==
    [][(/\ last'.req.op \in {"save", "update", "delete"}
        /\ last'.res.statusCode \in {400, 404}) =>
            /\ last'.res.message \in {InvalidPayload, MissingRequiredField,
                                      DuplicateName, NotFound, NotFoundOnDisk}
            /\ ~last'.res.status
            /\ RecsAfter = RecsBefore
            /\ \A d \in AllDirs \ {DirOfStep} : index'[d] = index[d]
            /\ blobs' = blobs]_vars

\* An update to the displayName of another record has been refused while
\* the index holds both records and their blob files.
C26_Witness ==
    /\ AnsweredBy("update")
    /\ Answered(DuplicateName, 400)
    /\ Len(RecsOf(last.req.host)) = 2
    /\ \A i \in 1..2 : RecsOf(last.req.host)[i].filename
                            \in DOMAIN blobs[domainDirOf(last.req.host)]

\* The blob files the record of the request's id names before the step.
TargetFiles ==
    {RecsBefore[i].filename : i \in {j \in 1..Len(RecsBefore) :
                                        RecsBefore[j].id = last'.req.id}}
OtherIdBefore(r) == r.id # last'.req.id

\* C27. A successful save, update or delete touches the index and the blob
\* files of its own host only.  A successful update leaves every record
\* with another id, at its position, and every blob file but its record's
\* as they were; a successful delete leaves the other records, in their
\* order, and removes no blob file but its record's; a successful save
\* leaves the records the index held, in their order, and every blob file
\* that existed.
C27_MutationFrame ==
    [][(last'.req.op \in {"save", "update", "delete"} /\ last'.res.status) =>
        /\ \A d \in AllDirs \ {DirOfStep} :
                index'[d] = index[d] /\ blobs'[d] = blobs[d]
        /\ last'.req.op = "update" =>
                /\ Len(RecsAfter) = Len(RecsBefore)
                /\ \A i \in 1..Len(RecsBefore) :
                        RecsBefore[i].id # last'.req.id => RecsAfter[i] = RecsBefore[i]
                /\ DOMAIN blobs'[DirOfStep] = DOMAIN blobs[DirOfStep]
                /\ \A f \in DOMAIN blobs[DirOfStep] \ TargetFiles :
                        blobs'[DirOfStep][f] = blobs[DirOfStep][f]
        /\ last'.req.op = "delete" =>
                /\ RecsAfter = SelectSeq(RecsBefore, OtherIdBefore)
                /\ DOMAIN blobs'[DirOfStep] = DOMAIN blobs[DirOfStep] \ TargetFiles
                /\ \A f \in DOMAIN blobs'[DirOfStep] :
                        blobs'[DirOfStep][f] = blobs[DirOfStep][f]
        /\ last'.req.op = "save" =>
                /\ Len(RecsAfter) = Len(RecsBefore) + 1
                /\ SubSeq(RecsAfter, 1, Len(RecsBefore)) = RecsBefore
                /\ \A f \in DOMAIN blobs[DirOfStep] :
                        /\ f \in DOMAIN blobs'[DirOfStep]
                        /\ blobs'[DirOfStep][f] = blobs[DirOfStep][f]]_vars

\* The first of two documents of a host has been deleted: the record and
\* the blob file of the second are left.
C27_Witness ==
    /\ AnsweredBy("delete")
    /\ last.res.status
    /\ last.req.id = 1
    /\ IdsIn(RecsOf(last.req.host)) = {2}
    /\ DOMAIN blobs[domainDirOf(last.req.host)] = {[stem |-> 2, ext |-> ".json"]}

\* C28. The call of getDomainPaths that opens every handler destroys
\* nothing: a list or a get of a host whose index file holds a collection
\* leaves every index file as it was; no list or get changes a blob file or
\* removes a directory; for a host without an index file it leaves the
\* host's directory with an index file holding the empty collection; and it
\* never fails, whether the directory existed or not.
C28_EnsureNonDestructive ==
    [][last'.req.op \in {"list", "get"} =>
        /\ (index[DirOfStep].kind = "json" /\ index[DirOfStep].type = "array")
                => index' = index
        /\ index[DirOfStep].kind = "absent" =>
                /\ DirOfStep \in dirs'
                /\ index'[DirOfStep] = [kind |-> "json", type |-> "array", recs |-> <<>>]
                /\ \A d \in AllDirs \ {DirOfStep} : index'[d] = index[d]
        /\ blobs' = blobs
        /\ dirs \subseteq dirs'
        /\ last'.res.statusCode # 500]_vars

\* A list of a host with two documents found a collection in the index
\* file and has been answered with both; the index file holds them still.
C28_Witness ==
    /\ AnsweredBy("list")
    /\ Len(last.res.data.list) = 2
    /\ last.seen.index = "array"
    /\ IdsIn(last.res.data.list) = IdsIn(RecsOf(last.req.host))
    /\ Len(RecsOf(last.req.host)) = 2
    /\ domainDirOf(last.req.host) \in dirs

\* The port an origin addresses: the written one, or the default port of
\* its scheme when none is written.
EffectivePort(o) == IF o.port = <<>> THEN DefaultPort(o.scheme) ELSE o.port

\* C29. A request without an override header whose origin header parses
\* resolves to a host, and so to a directory, that no other such request
\* resolves to whose origin differs from its own in hostname or in effective
\* port.
C29_OriginsSeparate ==
    (/\ last.req.op = "resolved"
     /\ last.req.headers.xhost = <<>>
     /\ last.req.headers.origin.given
     /\ last.req.headers.origin.parses) =>
        \A h2 \in ResolveHeaders :
            (/\ h2.xhost = <<>>
             /\ h2.origin.given
             /\ h2.origin.parses
             /\ \/ h2.origin.hostname # last.req.headers.origin.hostname
                \/ EffectivePort(h2.origin) # EffectivePort(last.req.headers.origin)) =>
                /\ getEffectiveHost(h2) # last.req.host
                /\ domainDirOf(getEffectiveHost(h2)) # domainDirOf(last.req.host)

====
